---- MODULE Spec2Model ----
(***************************************************************************)
(* stripe_gross.5m.py: an Argos script that is re-run from scratch on      *)
(* every refresh tick.  One run is main(): look the API key up, page       *)
(* through today's balance transactions, compare the cross-currency sum    *)
(* with the cached last amount (coin sound on increase), write the cache,  *)
(* print the menu.  The cache file and the generated sound file are the    *)
(* only state that survives a run.                                         *)
(***************************************************************************)
EXTENDS Integers, Sequences, FiniteSets, Bags, TLC

\* Most pages the API serves in one run, and most records on one page.
MaxPages == 2
MaxPageLen == 2

----------------------------------------------------------------------------
\* Text.  A text is a sequence of one-character strings.

DigitChars == <<"0", "1", "2", "3", "4", "5", "6", "7", "8", "9">>

Whitespace == {" ", "\n", "\t"}

IsDigit(c) == \E i \in 1..10 : DigitChars[i] = c

DigitValue(c) == (CHOOSE i \in 1..10 : DigitChars[i] = c) - 1

RECURSIVE Digits(_)
Digits(n) ==
    IF n < 10 THEN <<DigitChars[n + 1]>>
    ELSE Digits(n \div 10) \o <<DigitChars[(n % 10) + 1]>>

\* str(current), line 88
StrOf(n) == IF n < 0 THEN <<"-">> \o Digits(-n) ELSE Digits(n)

RECURSIVE LStrip(_)
LStrip(s) ==
    IF s # <<>> /\ Head(s) \in Whitespace THEN LStrip(Tail(s)) ELSE s

RECURSIVE RStrip(_)
RStrip(s) ==
    IF s # <<>> /\ s[Len(s)] \in Whitespace
    THEN RStrip(SubSeq(s, 1, Len(s) - 1)) ELSE s

\* str.strip(), lines 26 and 79
Strip(s) == RStrip(LStrip(s))

RECURSIVE DigitsValue(_, _)
DigitsValue(s, acc) ==
    IF s = <<>> THEN acc
    ELSE IF Head(s) = "_" THEN DigitsValue(Tail(s), acc)
    ELSE DigitsValue(Tail(s), 10 * acc + DigitValue(Head(s)))

\* The body of an integer literal: digits, single underscores between them.
IsDigitRun(s) ==
    /\ s # <<>>
    /\ \A i \in 1..Len(s) : IsDigit(s[i]) \/ s[i] = "_"
    /\ IsDigit(s[1]) /\ IsDigit(s[Len(s)])
    /\ \A i \in 1..(Len(s) - 1) : ~(s[i] = "_" /\ s[i + 1] = "_")

\* int(text), line 79: [ok |-> FALSE] stands for ValueError.
IntOf(text) ==
    LET s == Strip(text)
        signed == s # <<>> /\ Head(s) \in {"-", "+"}
        body == IF signed THEN Tail(s) ELSE s
    IN  IF IsDigitRun(body)
        THEN [ok |-> TRUE,
              val |-> IF signed /\ Head(s) = "-"
                      THEN 0 - DigitsValue(body, 0) ELSE DigitsValue(body, 0)]
        ELSE [ok |-> FALSE, val |-> 0]

----------------------------------------------------------------------------
\* The remote ledger.

None == "None"

\* Python truthiness of starting_after (None or a string), line 102
Truthy(x) == x # None /\ x # ""

\* The accepted kinds with refunds let in.
GROSS_VOLUME_TYPES_m == {"charge", "payment", "refund"}

GROSS_VOLUME_TYPES == {"charge", "payment"}

\* The balance transactions an account may hold on a day (id aside).
TxPool ==
    { [type |-> "charge",  currency |-> "usd", amount |-> 2],
      [type |-> "payment", currency |-> "USD", amount |-> 1],
      [type |-> "refund",  currency |-> "usd", amount |-> -1],
      [type |-> "other",   currency |-> "eur", amount |-> 4],
      [type |-> "payment", currency |-> "eur", amount |-> 1] }

\* An account whose ledger holds one kind of sale in each of two currencies.
SmallAccount ==
    { [type |-> "charge",  currency |-> "usd", amount |-> 1],
      [type |-> "payment", currency |-> "eur", amount |-> 1] }

\* The record lists a page may carry, for an account holding the records txs.
DataSeqs(txs) == UNION { [1..n -> txs] : n \in 0..MaxPageLen }

\* The API's record ids: distinct non-empty strings, in the order served.
TxnIds == <<"txn_01", "txn_02", "txn_03", "txn_04", "txn_05", "txn_06",
            "txn_07", "txn_08", "txn_09", "txn_10", "txn_11", "txn_12",
            "txn_13", "txn_14", "txn_15", "txn_16", "txn_17", "txn_18",
            "txn_19", "txn_20">>

\* data["data"] of a response: the records with the ids the API gives them.
WithIds(txs, base) ==
    [i \in 1..Len(txs) |->
        [id |-> TxnIds[base + i], type |-> txs[i].type,
         currency |-> txs[i].currency, amount |-> txs[i].amount]]

\* str.upper() on the currency codes the ledger uses, line 113
Upper(c) ==
    CASE c \in {"usd", "USD"} -> "USD"
      [] c \in {"eur", "EUR"} -> "EUR"

EmptyTotals == [c \in {} |-> 0]

\* totals.get(cur, 0), line 114
Get(totals, cur) == IF cur \in DOMAIN totals THEN totals[cur] ELSE 0

\* One pass of the loop body of lines 112-114 over one record.
AddTx(totals, tx) ==
    IF tx.type \in GROSS_VOLUME_TYPES
    THEN LET cur == Upper(tx.currency)
         IN  [c \in (DOMAIN totals) \cup {cur} |->
                 IF c = cur THEN Get(totals, cur) + tx.amount ELSE totals[c]]
    ELSE totals

\* for tx in data["data"], lines 111-114
RECURSIVE Accumulate(_, _)
Accumulate(totals, data) ==
    IF data = <<>> THEN totals
    ELSE Accumulate(AddTx(totals, Head(data)), Tail(data))

\* Line 118 taking the first record of the page.
NextCursor_m(data) == data[1].id

\* The cursor of the next request, line 118
NextCursor(data) == data[Len(data)].id

\* The query string of lines 98-103 and the header of line 106 (created[gte],
\* the same in every request of a run, is left out).
Request(api_key, starting_after) ==
    [limit |-> 100,
     cursor |-> IF Truthy(starting_after) THEN starting_after ELSE None,
     auth |-> api_key]

\* sum(totals.values()), line 77
RECURSIVE SumValues(_)
SumValues(totals) ==
    IF DOMAIN totals = {} THEN 0
    ELSE LET c == CHOOSE x \in DOMAIN totals : TRUE
         IN  totals[c] + SumValues([d \in (DOMAIN totals) \ {c} |-> totals[d]])

----------------------------------------------------------------------------
\* Credential lookup.

NoKey == [none |-> TRUE, text |-> <<>>]

\* What running secret-tool can give: an exception (not installed, timeout)
\* or its standard output.
LookupResults ==
    { [raised |-> TRUE,  stdout |-> <<>>],
      [raised |-> FALSE, stdout |-> <<>>],
      [raised |-> FALSE, stdout |-> <<" ", "\n">>],
      [raised |-> FALSE, stdout |-> <<"s", "k", "\n">>] }

get_api_key(r) ==
    IF r.raised THEN NoKey
    ELSE LET key == Strip(r.stdout)
         IN  IF key # <<>> THEN [none |-> FALSE, text |-> key] ELSE NoKey

\* `not api_key`, line 131
Falsy(k) == k.none \/ k.text = <<>>

----------------------------------------------------------------------------
\* Menu lines.

Line(kind, args) == [kind |-> kind, args |-> args]

Separator == Line("---", <<>>)

NoKeyMenu ==
    << Line("warn_header", <<>>), Separator, Line("no_api_key", <<>>),
       Line("run_in_terminal", <<>>), Line("secret_tool_store", <<>>) >>

Trailer == << Separator, Line("dashboard", <<>>), Line("refresh", <<>>) >>

\* format_amount: minor units to units and two fraction digits, with the code.
format_amount(amount_minor, currency) ==
    LET a == IF amount_minor < 0 THEN 0 - amount_minor ELSE amount_minor
    IN  [neg |-> amount_minor < 0, units |-> a \div 100, cents |-> a % 100,
         currency |-> currency]

\* Lexicographic order of the upper-cased codes.
CodeRank(c) == CASE c = "EUR" -> 1 [] c = "USD" -> 2

\* sorted(totals.items()), lines 150 and 154: the keys in ascending order.
RECURSIVE SortedKeys(_)
SortedKeys(S) ==
    IF S = {} THEN <<>>
    ELSE LET m == CHOOSE x \in S : \A y \in S : CodeRank(x) <= CodeRank(y)
         IN  <<m>> \o SortedKeys(S \ {m})

\* Lines 144-155: the primary body of a successful run.
Body(totals) ==
    IF DOMAIN totals = {}
    THEN << Line("zero_header", <<>>), Separator, Line("no_transactions", <<>>) >>
    ELSE LET keys == SortedKeys(DOMAIN totals)
             parts == [i \in 1..Len(keys) |-> format_amount(totals[keys[i]], keys[i])]
         IN  << Line("header", parts), Separator, Line("title", <<>>) >>
             \o [i \in 1..Len(keys) |-> Line("amount", <<parts[i]>>)]

\* Lines 161-164
HTTPErrorMenu(e) ==
    << Line("warn_header", <<>>), Separator, Line("http_error", <<e.code>>) >>

\* Lines 165-168
ErrorMenu(e) ==
    << Line("warn_header", <<>>), Separator, Line("error", <<e.at>>) >>

----------------------------------------------------------------------------
\* The cache.

File(text) == [exists |-> TRUE, text |-> text]

Missing == [exists |-> FALSE, text |-> <<>>]

\* The cache file before the script has ever written it: absent, or not a
\* number.
FreshCaches == { Missing, File(<<>>), File(<<"x">>) }

\* Cache files an earlier run or an editor may have left.
LeftCaches == { File(<<" ", "2", "\n">>), File(<<"-", "1">>) }

\* Lines 78-81, when the file can be read or is missing.
ReadPrevious(file) ==
    IF ~file.exists THEN 0
    ELSE LET r == IntOf(Strip(file.text)) IN IF r.ok THEN r.val ELSE 0

Max(a, b) == IF a >= b THEN a ELSE b

\* ShouldPlay without the guard of line 84.
ShouldPlay_m(current, previous) == current > previous

\* Lines 83-84
ShouldPlay(current, previous) == current > previous /\ previous > 0

\* Line 88 keeping the higher of the two totals.
NewCacheText_m(current, previous) == StrOf(Max(current, previous))

\* What line 88 writes.
NewCacheText(current, previous) == StrOf(current)

----------------------------------------------------------------------------
\* State.

VARIABLES
    account,         \* the balance transactions the Stripe account produces
    pc,              \* where main() is: "start", "fetch", "notify", "render",
                     \* "except", "done"
    cache,           \* LAST_AMOUNT_FILE
    soundFile,       \* whether COIN_SOUND_FILE exists
    api_key,         \* main's api_key
    totals,          \* fetch_gross_volume's totals, then main's
    starting_after,  \* fetch_gross_volume's cursor
    exc,             \* the exception in flight, or NoExc
    previous,        \* check_and_notify's previous
    current,         \* check_and_notify's current
    output,          \* the lines printed by this run
    requests,        \* the requests sent by this run, in order
    pageLog,         \* the pages received by this run, in order
    served,          \* the bag of the records received by this run
    soundTriggered,  \* play_coin_sound was called in this run
    soundLaunched,   \* paplay was started in this run
    cnReturned,      \* check_and_notify returned in this run
    cacheAtStart,    \* LAST_AMOUNT_FILE at the start of this run
    firstOfDay,      \* this run is the first of its calendar day
    dayMax,          \* highest total of the earlier completed runs of this day
    prevTotal        \* total of the latest run that got through the cache write

vars == << account, pc, cache, soundFile, api_key, totals, starting_after, exc,
           previous, current, output, requests, pageLog, served,
           soundTriggered, soundLaunched, cnReturned, cacheAtStart,
           firstOfDay, dayMax, prevTotal >>

history == << account, cacheAtStart, firstOfDay, dayMax, prevTotal >>

NoExc == [type |-> "none", at |-> "", code |-> 0]

Some(v) == [some |-> TRUE, val |-> v]

Nothing == [some |-> FALSE, val |-> 0]

\* What one run keeps in memory, as it is when the process starts.
FreshFrame ==
    /\ api_key = NoKey
    /\ totals = EmptyTotals
    /\ starting_after = None
    /\ exc = NoExc
    /\ previous = 0
    /\ current = 0
    /\ output = <<>>
    /\ requests = <<>>
    /\ pageLog = <<>>
    /\ served = EmptyBag
    /\ soundTriggered = FALSE
    /\ soundLaunched = FALSE
    /\ cnReturned = FALSE

\* The state when the host starts the script, the cache file being one of
\* caches.
Starting(caches) ==
    /\ pc = "start"
    /\ cache \in caches
    /\ soundFile = FALSE
    /\ FreshFrame
    /\ cacheAtStart = cache
    /\ firstOfDay = TRUE
    /\ dayMax = Nothing
    /\ prevTotal = Nothing

\* The first run after installation.
Init == Starting(FreshCaches) /\ account = SmallAccount

\* A run on an account with every kind of transaction, whatever the cache.
InitRun == Starting(FreshCaches \cup LeftCaches) /\ account = TxPool

----------------------------------------------------------------------------
\* Lookup with the action lines printed after the instructional menu.
Lookup_m ==
    /\ pc = "start"
    /\ \E r \in LookupResults :
         LET k == get_api_key(r)
         IN  IF Falsy(k)
             THEN /\ output' = NoKeyMenu \o Trailer
                  /\ pc' = "done"
                  /\ UNCHANGED api_key
             ELSE /\ api_key' = k
                  /\ pc' = "fetch"
                  /\ UNCHANGED output
    /\ UNCHANGED << cache, soundFile, totals, starting_after, exc, previous,
                    current, requests, pageLog, served, soundTriggered,
                    soundLaunched, cnReturned, history >>

\* main(), lines 130-137: the lookup, and the menu of the run without a key.
Lookup ==
    /\ pc = "start"
    /\ \E r \in LookupResults :
         LET k == get_api_key(r)
         IN  IF Falsy(k)
             THEN /\ output' = NoKeyMenu
                  /\ pc' = "done"
                  /\ UNCHANGED api_key
             ELSE /\ api_key' = k
                  /\ pc' = "fetch"
                  /\ UNCHANGED output
    /\ UNCHANGED << cache, soundFile, totals, starting_after, exc, previous,
                    current, requests, pageLog, served, soundTriggered,
                    soundLaunched, cnReturned, history >>

\* The number of records received so far by this run.
RECURSIVE Received(_)
Received(log) ==
    IF log = <<>> THEN 0 ELSE log[Len(log)].n + Received(SubSeq(log, 1, Len(log) - 1))

RECURSIVE BagOf(_)
BagOf(txs) == IF txs = <<>> THEN EmptyBag ELSE SetToBag({Head(txs)}) (+) BagOf(Tail(txs))

\* One pass of the loop of fetch_gross_volume (lines 97-118) on a response
\* that decodes: records txs, flag has_more.
FetchPage ==
    /\ pc = "fetch"
    /\ Len(requests) < MaxPages
    /\ \E txs \in DataSeqs(account), has_more \in BOOLEAN :
         LET data == WithIds(txs, Received(pageLog))
         IN  /\ has_more => Len(requests) + 1 < MaxPages
             /\ requests' = Append(requests, Request(api_key.text, starting_after))
             /\ pageLog' = Append(pageLog,
                    [n |-> Len(data), has_more |-> has_more,
                     last |-> IF data = <<>> THEN "" ELSE data[Len(data)].id])
             /\ served' = served (+) BagOf(txs)
             /\ totals' = Accumulate(totals, data)
             /\ IF ~has_more
                THEN /\ pc' = "notify"
                     /\ UNCHANGED << starting_after, exc >>
                ELSE IF data = <<>>
                THEN \* data["data"][-1] on an empty list: IndexError
                     /\ pc' = "except"
                     /\ exc' = [type |-> "Exception", at |-> "fetch", code |-> 0]
                     /\ UNCHANGED starting_after
                ELSE /\ starting_after' = NextCursor(data)
                     /\ pc' = "fetch"
                     /\ UNCHANGED exc
    /\ UNCHANGED << cache, soundFile, api_key, previous, current, output,
                    soundTriggered, soundLaunched, cnReturned, history >>

\* FetchFail with the error swallowed inside fetch_gross_volume, which then
\* returns the totals gathered so far.
FetchFail_m ==
    /\ pc = "fetch"
    /\ Len(requests) < MaxPages
    /\ requests' = Append(requests, Request(api_key.text, starting_after))
    /\ exc' = [type |-> "Exception", at |-> "fetch", code |-> 0]
    /\ pc' = "notify"
    /\ UNCHANGED << cache, soundFile, api_key, totals, starting_after, previous,
                    current, output, pageLog, served, soundTriggered,
                    soundLaunched, cnReturned, history >>

\* A request that fails (lines 108-109): urlopen raises HTTPError for a
\* status that is not 2xx, URLError or a timeout otherwise, and json.loads or
\* a missing key raises on a response that does not decode.
FetchFail ==
    /\ pc = "fetch"
    /\ Len(requests) < MaxPages
    /\ requests' = Append(requests, Request(api_key.text, starting_after))
    /\ \E e \in { [type |-> "HTTPError", at |-> "fetch", code |-> 401],
                  [type |-> "HTTPError", at |-> "fetch", code |-> 500],
                  [type |-> "Exception", at |-> "fetch", code |-> 0] } :
         exc' = e
    /\ pc' = "except"
    /\ UNCHANGED << cache, soundFile, api_key, totals, starting_after, previous,
                    current, output, pageLog, served, soundTriggered,
                    soundLaunched, cnReturned, history >>

Raise(type, at) ==
    /\ exc' = [type |-> type, at |-> at, code |-> 0]
    /\ pc' = "except"

\* check_and_notify(totals), lines 75-88, with play_coin_sound (65-72)
\* inside it.  The environment decides whether reading the cache file fails
\* with an OSError other than FileNotFoundError (readErr), how generating a
\* missing sound file goes (gen: done, failed before the file was created,
\* or failed leaving a partial file), whether paplay can be started
\* (popenOk) and how the write goes (w): done, refused before the file is
\* touched, or failed after the file was opened and truncated.
CheckAndNotify ==
    /\ pc = "notify"
    /\ current' = SumValues(totals)
    /\ \E readErr \in BOOLEAN, gen \in {"ok", "failed", "partial"},
          popenOk \in BOOLEAN, w \in {"ok", "refused", "truncated"} :
         IF readErr
         THEN /\ Raise("Exception", "read")
              /\ UNCHANGED << cache, soundFile, previous, soundTriggered,
                              soundLaunched, cnReturned >>
         ELSE LET prev == ReadPrevious(cache)
                  play == ShouldPlay(SumValues(totals), prev)
                  soundOk == ~play \/ ((soundFile \/ gen = "ok") /\ popenOk)
              IN  /\ previous' = prev
                  /\ soundTriggered' = play
                  /\ soundFile' = (soundFile \/ (play /\ gen # "failed"))
                  /\ soundLaunched' = (play /\ soundOk)
                  /\ IF ~soundOk
                     THEN /\ Raise("Exception", "sound")
                          /\ UNCHANGED << cache, cnReturned >>
                     ELSE IF w = "ok"
                     THEN /\ cache' = File(NewCacheText(SumValues(totals), prev))
                          /\ cnReturned' = TRUE
                          /\ pc' = "render"
                          /\ UNCHANGED exc
                     ELSE /\ cache' = IF w = "truncated" THEN File(<<>>) ELSE cache
                          /\ Raise("Exception", "write")
                          /\ UNCHANGED cnReturned
    /\ UNCHANGED << api_key, totals, starting_after, output, requests, pageLog,
                    served, history >>

\* Render with lines 157-159 inside the else branch of line 148.
Render_m ==
    /\ pc = "render"
    /\ output' = IF DOMAIN totals = {} THEN Body(totals) ELSE Body(totals) \o Trailer
    /\ pc' = "done"
    /\ UNCHANGED << cache, soundFile, api_key, totals, starting_after, exc,
                    previous, current, requests, pageLog, served,
                    soundTriggered, soundLaunched, cnReturned, history >>

\* main(), lines 144-159
Render ==
    /\ pc = "render"
    /\ output' = Body(totals) \o Trailer
    /\ pc' = "done"
    /\ UNCHANGED << cache, soundFile, api_key, totals, starting_after, exc,
                    previous, current, requests, pageLog, served,
                    soundTriggered, soundLaunched, cnReturned, history >>

\* main(), lines 161-164
HandleHTTPError ==
    /\ pc = "except"
    /\ exc.type = "HTTPError"
    /\ output' = HTTPErrorMenu(exc)
    /\ pc' = "done"
    /\ UNCHANGED << cache, soundFile, api_key, totals, starting_after, exc,
                    previous, current, requests, pageLog, served,
                    soundTriggered, soundLaunched, cnReturned, history >>

\* HandleException followed by the action lines of lines 157-159.
HandleException_m ==
    /\ pc = "except"
    /\ exc.type # "HTTPError"
    /\ output' = ErrorMenu(exc) \o Trailer
    /\ pc' = "done"
    /\ UNCHANGED << cache, soundFile, api_key, totals, starting_after, exc,
                    previous, current, requests, pageLog, served,
                    soundTriggered, soundLaunched, cnReturned, history >>

\* main(), lines 165-168
HandleException ==
    /\ pc = "except"
    /\ exc.type # "HTTPError"
    /\ output' = ErrorMenu(exc)
    /\ pc' = "done"
    /\ UNCHANGED << cache, soundFile, api_key, totals, starting_after, exc,
                    previous, current, requests, pageLog, served,
                    soundTriggered, soundLaunched, cnReturned, history >>

\* The host starts the script again (lines 171-172), on the same calendar
\* day or on a later one: a new process, with the files as the last run
\* left them.
NextRun ==
    /\ pc = "done"
    /\ pc' = "start"
    /\ api_key' = NoKey
    /\ totals' = EmptyTotals
    /\ starting_after' = None
    /\ exc' = NoExc
    /\ previous' = 0
    /\ current' = 0
    /\ output' = <<>>
    /\ requests' = <<>>
    /\ pageLog' = <<>>
    /\ served' = EmptyBag
    /\ soundTriggered' = FALSE
    /\ soundLaunched' = FALSE
    /\ cnReturned' = FALSE
    /\ cacheAtStart' = cache
    /\ \E newDay \in BOOLEAN :
         /\ firstOfDay' = newDay
         /\ dayMax' = IF newDay THEN Nothing
                      ELSE IF ~cnReturned THEN dayMax
                      ELSE IF dayMax.some THEN Some(Max(dayMax.val, SumValues(totals)))
                      ELSE Some(SumValues(totals))
    /\ prevTotal' = IF cnReturned THEN Some(SumValues(totals))
                    ELSE IF exc.at = "write" THEN Nothing
                    ELSE prevTotal
    /\ UNCHANGED << account, cache, soundFile >>

Next ==
    \/ Lookup
    \/ FetchPage
    \/ FetchFail
    \/ CheckAndNotify
    \/ Render
    \/ HandleHTTPError
    \/ HandleException
    \/ NextRun

Spec == Init /\ [][Next]_vars

\* One run of the script, on an account with every kind of transaction.
RunNext ==
    \/ Lookup
    \/ FetchPage
    \/ FetchFail
    \/ CheckAndNotify
    \/ Render
    \/ HandleHTTPError
    \/ HandleException

SpecRun == InitRun /\ [][RunNext]_vars

----------------------------------------------------------------------------
\* Properties.

\* check_and_notify got as far as the comparison of line 83.
Decided == cnReturned \/ exc.at \in {"sound", "write"}

\* The totals a run can reach within the bounds.
TotalRange == 0..(2 * MaxPages * MaxPageLen)

\* C1: the sound is triggered in a run exactly when current > previous and
\* previous > 0, current being the sum of the currency totals and previous the
\* integer in the cache file at the start of the run (0 when the file is
\* missing or holds no integer); a run that does not reach the comparison
\* triggers nothing.
C1_SoundIffIncrease ==
    /\ soundTriggered => Decided
    /\ Decided =>
         /\ current = Get(totals, "USD") + Get(totals, "EUR")
         /\ ~cacheAtStart.exists => previous = 0
         /\ cacheAtStart \in {File(<<>>), File(<<"x">>)} => previous = 0
         /\ \A n \in TotalRange : cacheAtStart = File(StrOf(n)) => previous = n
         /\ soundTriggered <=> (current > previous /\ previous > 0)

\* A run in which the total rose above a positive cached total and the sound
\* was triggered.
C1_Witness ==
    /\ Decided
    /\ soundTriggered
    /\ cacheAtStart.exists
    /\ previous > 0
    /\ current > previous

\* C2: once the fetch has succeeded, check_and_notify leaves current in the
\* cache file whether or not the sound could be generated or the player
\* started (the cache read and write themselves not failing).
C2_AlwaysPersisted ==
    (cnReturned \/ exc.at = "sound") =>
        cache = File(StrOf(Get(totals, "USD") + Get(totals, "EUR")))

\* The upper-cased code c and the spellings of it the ledger uses.
Spellings(c) == IF c = "USD" THEN {"usd", "USD"} ELSE {"eur", "EUR"}

Qualifies(tx, c) ==
    tx.type \in {"charge", "payment"} /\ tx.currency \in Spellings(c)

RECURSIVE QualifyingSum(_, _)
QualifyingSum(S, c) ==
    IF S = {} THEN 0
    ELSE LET tx == CHOOSE x \in S : TRUE
         IN  (IF Qualifies(tx, c) THEN tx.amount * CopiesIn(tx, served) ELSE 0)
             + QualifyingSum(S \ {tx}, c)

\* The currencies in which this run received a charge or a payment.
QualifyingCodes ==
    { c \in {"USD", "EUR"} : \E tx \in BagToSet(served) : Qualifies(tx, c) }

\* fetch_gross_volume has returned: the last page received says has_more = false.
FetchReturned == pageLog # <<>> /\ ~pageLog[Len(pageLog)].has_more

\* C3: when the ledger has been served as N pages, has_more true on all but
\* the last, the run has sent exactly N requests and sends no more; the first
\* carries no cursor, each later one the id of the last record of the page
\* before it; the totals are the aggregation of the qualifying records of the
\* N pages.
C3_Pagination ==
    FetchReturned =>
        LET N == Len(pageLog)
        IN  /\ Len(requests) = N
            /\ \A i \in 1..(N - 1) : pageLog[i].has_more /\ pageLog[i].n > 0
            /\ requests[1].cursor = None
            /\ \A i \in 2..N : requests[i].cursor = pageLog[i - 1].last
            /\ totals = [c \in QualifyingCodes |->
                            QualifyingSum(BagToSet(served), c)]

\* A run that was served two pages, the first with two records, and is over.
C3_Witness ==
    /\ FetchReturned
    /\ pc = "done"
    /\ Len(pageLog) = 2
    /\ pageLog[1].n = 2
    /\ pageLog[2].n > 0
    /\ Len(requests) = 2
    /\ requests[2].cursor = "txn_02"

\* C4: at every point of the fetch, the total of a currency, keyed by the
\* upper-cased code, is the sum of the amounts of the charges and payments
\* received in that currency; records of another kind add nothing and create
\* no key, whatever the sign of their amount.
C4_Aggregation ==
    /\ DOMAIN totals = QualifyingCodes
    /\ \A c \in DOMAIN totals : totals[c] = QualifyingSum(BagToSet(served), c)
    /\ \A tx \in BagToSet(served) :
         tx.type \notin {"charge", "payment"} =>
            \A c \in DOMAIN totals :
               totals[c] = QualifyingSum(BagToSet(served) \ {tx}, c)

\* A fetch that received a refund of negative amount, a record of kind
\* "other" in euros and sales in both spellings of the dollar: the dollar
\* total is that of the sales and there is no euro key.
C4_Witness ==
    /\ pc = "notify"
    /\ \E t1, t2, t3, t4 \in BagToSet(served) :
         /\ t1.type = "refund" /\ t1.amount < 0
         /\ t2.type = "other" /\ t2.currency = "eur" /\ t2.amount > 0
         /\ t3.type = "charge" /\ t3.currency = "usd"
         /\ t4.type = "payment" /\ t4.currency = "USD"
    /\ DOMAIN totals = {"USD"}
    /\ totals["USD"] = 3

\* The run is over and had obtained a credential.
KeyedRunOver == pc = "done" /\ ~Falsy(api_key)

EndsWithActions(out) ==
    /\ Len(out) >= 3
    /\ out[Len(out) - 2] = Line("---", <<>>)
    /\ out[Len(out) - 1] = Line("dashboard", <<>>)
    /\ out[Len(out)] = Line("refresh", <<>>)

\* C5, as stated: every run that obtained a credential, failed or not, ends
\* its output with the "---" separator, the dashboard line and the refresh
\* line.
C5_ActionsAlways == KeyedRunOver => EndsWithActions(output)

\* C5, amended: the output ends with the separator and the two action lines,
\* after the primary body, in the runs in which the fetch and
\* check_and_notify both succeeded (totals empty or not); in a run in which
\* a step failed the output is the three-line warning menu and has no action
\* line.
C5_ActionsOnSuccess ==
    KeyedRunOver =>
        IF exc = NoExc
        THEN /\ EndsWithActions(output)
             /\ Len(output) >= 6
             /\ output[1].kind \in {"zero_header", "header"}
        ELSE /\ Len(output) = 3
             /\ \A i \in 1..Len(output) :
                  output[i].kind \notin {"dashboard", "refresh"}

\* A successful run with totals in two currencies, action lines last.
C5_Witness ==
    /\ KeyedRunOver
    /\ exc = NoExc
    /\ DOMAIN totals = {"USD", "EUR"}
    /\ Len(output) = 8
    /\ EndsWithActions(output)

AmountKinds == {"zero_header", "no_transactions", "header", "title", "amount"}

\* C6: a failure of any step after the lookup (a request for any page, the
\* decoding of a response, the cache read or write, the sound) is caught; the
\* run ends normally and prints the warning menu only: header, separator, one
\* error line, and no total, not even when the fetch had succeeded.
C6_WarningMenuOnly ==
    /\ pc = "except" =>
         /\ exc.type \in {"HTTPError", "Exception"}
         /\ output = <<>>
         /\ ENABLED (HandleHTTPError \/ HandleException)
    /\ (pc = "done" /\ exc # NoExc) =>
         /\ Len(output) = 3
         /\ output[1] = Line("warn_header", <<>>)
         /\ output[2] = Line("---", <<>>)
         /\ output[3].kind = (IF exc.type = "HTTPError" THEN "http_error" ELSE "error")
         /\ \A i \in 1..Len(output) : output[i].kind \notin AmountKinds

\* A run whose fetch succeeded with sales in it and whose cache write failed:
\* the warning menu is all it printed.
C6_Witness ==
    /\ pc = "done"
    /\ exc.at = "write"
    /\ FetchReturned
    /\ DOMAIN totals # {}
    /\ Len(output) = 3
    /\ output[3].kind = "error"

\* C7, as stated: at the start of a run that follows a completed run of the
\* same day, the cache file holds the highest total of the completed runs of
\* that day.
C7_HighestOfDay ==
    (pc = "start" /\ prevTotal.some /\ dayMax.some) =>
        cache = File(StrOf(dayMax.val))

\* C7, amended: at the start of every run, the cache file holds the total of
\* the latest run that got through check_and_notify (no later run having
\* failed in the cache write): the last total, not the highest, and whatever
\* the day of that run.
C7_LastTotal ==
    (pc = "start" /\ prevTotal.some) => cache = File(StrOf(prevTotal.val))

\* The start of a run, later on a day on which the total went down: the cache
\* holds the last total, below the highest of the day.
C7_Witness ==
    /\ pc = "start"
    /\ ~firstOfDay
    /\ prevTotal.some
    /\ dayMax.some
    /\ prevTotal.val < dayMax.val
    /\ cache = File(StrOf(prevTotal.val))

\* C8: the first run of a calendar day never triggers the sound.
C8_QuietFirstRunOfDay == firstOfDay => ~soundTriggered

\* C9: a run whose lookup yields no credential sends no request, leaves the
\* cache file alone, triggers no sound and prints the instructional menu and
\* nothing after it; only such a run goes on without a key.
C9_NoCredential ==
    (pc # "start" /\ Falsy(api_key)) =>
        /\ pc = "done"
        /\ output = NoKeyMenu
        /\ requests = <<>>
        /\ pageLog = <<>>
        /\ cache = cacheAtStart
        /\ ~soundTriggered
        /\ ~soundLaunched
        /\ ~cnReturned
        /\ exc = NoExc

\* A run without a credential, after a run that had written the cache.
C9_Witness ==
    /\ pc = "done"
    /\ Falsy(api_key)
    /\ output = NoKeyMenu
    /\ prevTotal.some
    /\ cache = File(StrOf(prevTotal.val))

\* C10: a run whose fetch fails, on the first page or a later one, leaves
\* the cache file as it was and triggers no sound, so that the next run that
\* reaches the comparison compares with the total of the last run that wrote
\* the cache.
C10_FailedFetchKeepsCache ==
    /\ exc.at = "fetch" =>
         /\ cache = cacheAtStart
         /\ ~soundTriggered
         /\ ~soundLaunched
         /\ ~cnReturned
    /\ (Decided /\ prevTotal.some) => previous = prevTotal.val

\* A run that failed on its second request, holding partial totals, after a
\* run that had written the cache.
C10_Witness ==
    /\ pc = "done"
    /\ exc.at = "fetch"
    /\ Len(requests) = 2
    /\ DOMAIN totals # {}
    /\ prevTotal.some
    /\ cache = File(StrOf(prevTotal.val))

====
